---- MODULE Spec2Model ----
(***************************************************************************)
(* Duplicate-Files-Finder-CLI (src/main.py): one run of main().            *)
(*                                                                         *)
(* A string is a sequence of one-character strings, so that startswith,    *)
(* the substring test `in`, os.path.join and the code point order used by  *)
(* sorted() are computed as Python computes them.  The filesystem is a     *)
(* small tree under the working directory, every directory listable.      *)
(* The command-line arguments are drawn in Init.  A run opens each file at *)
(* most once (the scanned paths are a set), so what the file holds, or     *)
(* that it cannot be opened, is drawn when get_file_hash opens it and is   *)
(* recorded in `content`.                                                  *)
(***************************************************************************)
EXTENDS Integers, Sequences, FiniteSets, TLC

\* ------------------------------------------------------------------ bounds

\* The longest list of positional directory arguments drawn in Init.
MaxRoots == 2

\* ----------------------------------------------------------------- strings

\* Code points of the characters that occur in the model's strings.
Ord(c) ==
    CASE c = "." -> 46 [] c = "/" -> 47 [] c = "_" -> 95
      [] c = "a" -> 97 [] c = "b" -> 98 [] c = "c" -> 99 [] c = "d" -> 100
      [] c = "e" -> 101 [] c = "g" -> 103 [] c = "h" -> 104 [] c = "l" -> 108
      [] c = "m" -> 109 [] c = "n" -> 110 [] c = "o" -> 111 [] c = "p" -> 112
      [] c = "s" -> 115 [] c = "u" -> 117 [] c = "v" -> 118 [] c = "x" -> 120
      [] c = "y" -> 121 [] c = "z" -> 122

\* Python's str.__lt__: lexicographic by code point, a proper prefix first.
RECURSIVE StrLess(_, _)
StrLess(a, b) ==
    IF b = <<>> THEN FALSE
    ELSE IF a = <<>> THEN TRUE
    ELSE IF Ord(Head(a)) < Ord(Head(b)) THEN TRUE
    ELSE IF Ord(Head(a)) > Ord(Head(b)) THEN FALSE
    ELSE StrLess(Tail(a), Tail(b))

\* Python's `sub in s` for strings.
Contains(sub, s) ==
    \E i \in 1..(Len(s) - Len(sub) + 1) : SubSeq(s, i, i + Len(sub) - 1) = sub

\* Python's s.startswith(prefix).
StartsWith(s, prefix) ==
    Len(s) >= Len(prefix) /\ SubSeq(s, 1, Len(prefix)) = prefix

\* os.path.join(root, name) of posixpath for a relative name.
Join(root, name) ==
    IF root = <<>> \/ root[Len(root)] = "/" THEN root \o name
    ELSE root \o <<"/">> \o name

\* The pieces of a path between its separators.
RECURSIVE Split(_)
Split(s) ==
    IF \E i \in 1..Len(s) : s[i] = "/"
    THEN LET i == CHOOSE k \in 1..Len(s) :
                      s[k] = "/" /\ \A j \in 1..(k - 1) : s[j] # "/"
         IN  <<SubSeq(s, 1, i - 1)>> \o Split(SubSeq(s, i + 1, Len(s)))
    ELSE <<s>>

\* The sequences that list every element of a finite set exactly once.
Perms(S) ==
    {s \in [1..Cardinality(S) -> S] : \A i, j \in DOMAIN s : s[i] = s[j] => i = j}

\* insertion of x into an ascending list, after the elements not above it
RECURSIVE InsertSorted(_, _)
InsertSorted(x, s) ==
    IF s = <<>> THEN <<x>>
    ELSE IF StrLess(x, Head(s)) THEN <<x>> \o s
    ELSE <<Head(s)>> \o InsertSorted(x, Tail(s))

RECURSIVE SortLoop(_, _)
SortLoop(s, acc) ==
    IF s = <<>> THEN acc ELSE SortLoop(Tail(s), InsertSorted(Head(s), acc))

\* A plausible bug: the list is used in the set's iteration order.
SortedUnsorted(s) == s

\* sorted(list) of main: ascending by code point.
Sorted(s) == SortLoop(s, <<>>)

\* -------------------------------------------------------------- filesystem

\* The tree under the working directory:
\*   a/x   a/.h   a/s/y   a/s/.g/c   a/myvenv/z
Dirs == {"A", "S", "G", "V"}
NoDir == "none"
Cwd == "cwd"

DirName ==
    [d \in Dirs |->
        CASE d = "A" -> <<"a">>
          [] d = "S" -> <<"s">>
          [] d = "G" -> <<".", "g">>
          [] d = "V" -> <<"m", "y", "v", "e", "n", "v">>]

DirParent ==
    [d \in Dirs |->
        CASE d = "A" -> Cwd [] d = "S" -> "A" [] d = "G" -> "S" [] d = "V" -> "A"]

DirFiles ==
    [d \in Dirs |->
        CASE d = "A" -> {<<"x">>, <<".", "h">>}
          [] d = "S" -> {<<"y">>}
          [] d = "G" -> {<<"c">>}
          [] d = "V" -> {<<"z">>}]

SubDirs(d) == {c \in Dirs : DirParent[c] = d}

\* The directory a name denotes inside a directory, if any.
Lookup(parent, name) ==
    IF \E d \in Dirs : DirParent[d] = parent /\ DirName[d] = name
    THEN CHOOSE d \in Dirs : DirParent[d] = parent /\ DirName[d] = name
    ELSE NoDir

RECURSIVE Descend(_, _)
Descend(node, segs) ==
    IF segs = <<>> THEN node
    ELSE IF node = NoDir THEN NoDir
    ELSE IF Head(segs) = <<>> THEN Descend(node, Tail(segs))
    ELSE Descend(Lookup(node, Head(segs)), Tail(segs))

\* The directory a path string names, relative to the working directory.
Resolve(path) == Descend(Cwd, Split(path))

\* What a file may hold.
Contents == {<<>>, <<"a">>, <<"b">>}

\* The directory arguments a run may be given: existing directories, one nested
\* in another, one written with a trailing separator, one whose path contains
\* an ignored fragment, and one that does not exist.
RootChoices ==
    { <<"a">>,
      <<"a", "/">>,
      <<"a", "/", "s">>,
      <<"a", "/", "m", "y", "v", "e", "n", "v">>,
      <<"n", "x">> }

RootLists == UNION {[1..n -> RootChoices] : n \in 0..MaxRoots}

\* -v is a counter; main only tests verbose > 1.
Verbosities == 0..2

\* -------------------------------------------------------------------- state

VARIABLES
    recursive,       \* args.recursive
    include_hidden,  \* args.include_hidden
    verbose,         \* args.verbose
    directories,     \* args.directories
    pc,              \* where main is: start, scan, hash, group, done, usage, error
    dir_idx,         \* get_subdirs_files: how many of directories the outer loop has taken
    walk_stack,      \* os.walk: the directories still to be yielded, next one first
    file_paths,      \* get_subdirs_files: the set file_paths
    sorted_paths,    \* main: file_paths after line 196, a sorted list
    idx,             \* how many pairs the loop of group_files_by_hash has consumed
    cur,             \* the pair (file_hash, file_path) the generator has just yielded
    files_by_hash,   \* group_files_by_hash: the dict files_by_hash
    unique_len,      \* main: unique_len (-1: unbound)
    duplicate_len,   \* main: duplicate_len (-1: unbound)
    report,          \* main: files_by_hash after the filter of line 226
    printed,         \* what has been written to standard output
    exit_code,       \* the process's exit status (-1: still running)
    err_path,        \* the path the uncaught OSError names (<<>>: none)
    content          \* the bytes of each file opened so far

vars ==
    <<recursive, include_hidden, verbose, directories, pc, dir_idx, walk_stack,
      file_paths, sorted_paths, idx, cur, files_by_hash, unique_len, duplicate_len,
      report, printed, exit_code, err_path, content>>

args == <<recursive, include_hidden, verbose, directories>>

EmptyTable == [h \in {} |-> <<>>]
NoPair == [hash |-> "", path |-> <<>>]

\* ------------------------------------------------------------ get_file_hash

chunk_size == 10240

Min(a, b) == IF a < b THEN a ELSE b

\* The read loop: chunks of chunk_size bytes are fed to the hash object until
\* read returns no bytes; the value is everything fed to it.
RECURSIVE ReadLoop(_, _, _)
ReadLoop(data, pos, fed) ==
    LET chunk == SubSeq(data, pos + 1, Min(pos + chunk_size, Len(data)))
    IN  IF chunk = <<>> THEN fed ELSE ReadLoop(data, pos + Len(chunk), fed \o chunk)

\* hashlib.md5(...).hexdigest() of the byte strings a file may hold.
md5(data) ==
    CASE data = <<>> -> "d41d8cd98f00b204e9800998ecf8427e"
      [] data = <<"a">> -> "0cc175b9c0f1b6a831c399e269772661"
      [] data = <<"b">> -> "92eb5ffee6ae2fec3ad71c777531578f"

\* A plausible bug: the hash object is never updated.
get_file_hash_NoUpdate(data) == md5(<<>>)

\* get_file_hash of a file that opens and holds `data`.
get_file_hash(data) == md5(ReadLoop(data, 0, <<>>))

\* ------------------------------------------------------ group_files_by_hash

\* A plausible bug: an existing key's list is replaced instead of extended.
InsertReplacing(table, file_hash, file_path) ==
    [h \in DOMAIN table \cup {file_hash} |->
        IF h = file_hash THEN <<file_path>> ELSE table[h]]

\* One turn of the loop of group_files_by_hash.
Insert(table, file_hash, file_path) ==
    IF file_hash \notin DOMAIN table
    THEN [h \in DOMAIN table \cup {file_hash} |->
             IF h = file_hash THEN <<file_path>> ELSE table[h]]
    ELSE [table EXCEPT ![file_hash] = Append(@, file_path)]

\* -------------------------------------------------------- get_subdirs_files

IGNORE_LIST ==
    { <<"n", "o", "d", "e", "_", "m", "o", "d", "u", "l", "e", "s">>,
      <<"v", "e", "n", "v">>,
      <<"_", "_", "p", "y", "c", "a", "c", "h", "e", "_", "_">> }

\* A plausible bug: the test is dropped and every directory is collected from.
StopCollectingNever(directory, root) == FALSE

\* `not recursive and directory != root`
StopCollecting(directory, root) == ~recursive /\ directory # root

\* `not includeHidden and file.startswith('.')`
IsHidden(file) == ~include_hidden /\ StartsWith(file, <<".">>)

\* A plausible bug: the directory's path is compared with the entries of the
\* list instead of being searched for them.
IgnoredExact(root) == root \in IGNORE_LIST

\* `any(ignore_value in root for ignore_value in IGNORE_LIST)`
Ignored(root) == \E ignore_value \in IGNORE_LIST : Contains(ignore_value, root)

\* The loop over the files of one directory the walk yields.
RECURSIVE FilesLoop(_, _, _, _)
FilesLoop(directory, root, files, acc) ==
    IF files = <<>> THEN acc
    ELSE IF StopCollecting(directory, root) THEN acc
    ELSE IF IsHidden(Head(files)) THEN FilesLoop(directory, root, Tail(files), acc)
    ELSE IF Ignored(root) THEN FilesLoop(directory, root, Tail(files), acc)
    ELSE FilesLoop(directory, root, Tail(files), acc \cup {Join(root, Head(files))})

\* --------------------------------------------------------------------- main

\* A plausible bug: the filter keeps every group.
FilterDuplicatesAll(table) == table

\* `{hash: paths for hash, paths in files_by_hash.items() if len(paths) > 1}`
FilterDuplicates(table) ==
    [h \in {k \in DOMAIN table : Len(table[k]) > 1} |-> table[h]]

Init ==
    /\ recursive \in BOOLEAN
    /\ include_hidden \in BOOLEAN
    /\ verbose \in Verbosities
    /\ directories \in RootLists
    /\ pc = "start"
    /\ dir_idx = 0
    /\ walk_stack = <<>>
    /\ file_paths = {}
    /\ sorted_paths = <<>>
    /\ idx = 0
    /\ cur = NoPair
    /\ files_by_hash = EmptyTable
    /\ unique_len = -1
    /\ duplicate_len = -1
    /\ report = EmptyTable
    /\ printed = {}
    /\ exit_code = -1
    /\ err_path = <<>>
    /\ content = [p \in {} |-> <<>>]

\* parse_cli_args with at least one directory: the arguments are echoed.
ParseCliArgs ==
    /\ pc = "start"
    /\ Len(directories) >= 1
    /\ pc' = "scan"
    /\ printed' = printed \cup {"flags"}
    /\ UNCHANGED <<args, dir_idx, walk_stack, file_paths, sorted_paths, idx, cur,
                   files_by_hash, unique_len, duplicate_len, report, exit_code,
                   err_path, content>>

\* parse_cli_args without a directory: nargs='+' makes argparse print its usage
\* and exit with status 2.
ParseCliArgsError ==
    /\ pc = "start"
    /\ Len(directories) = 0
    /\ pc' = "usage"
    /\ exit_code' = 2
    /\ UNCHANGED <<args, dir_idx, walk_stack, file_paths, sorted_paths, idx, cur,
                   files_by_hash, unique_len, duplicate_len, report, printed,
                   err_path, content>>

\* `for directory in directories`: os.walk starts on the next directory. With no
\* onerror handler a directory that cannot be listed yields nothing.
NextDirectory ==
    /\ pc = "scan"
    /\ walk_stack = <<>>
    /\ dir_idx < Len(directories)
    /\ dir_idx' = dir_idx + 1
    /\ walk_stack' = IF Resolve(directories[dir_idx + 1]) = NoDir
                     THEN <<>>
                     ELSE <<directories[dir_idx + 1]>>
    /\ UNCHANGED <<args, pc, file_paths, sorted_paths, idx, cur, files_by_hash,
                   unique_len, duplicate_len, report, printed, exit_code, err_path,
                   content>>

\* One (root, dirs, files) of os.walk, top down, and the loop over its files; the
\* listing order of a directory is the filesystem's.
WalkStep ==
    /\ pc = "scan"
    /\ walk_stack # <<>>
    /\ LET directory == directories[dir_idx]
           root == Head(walk_stack)
           node == Resolve(root)
       IN  \E files \in Perms(DirFiles[node]), dirs \in Perms(SubDirs(node)) :
               /\ file_paths' = FilesLoop(directory, root, files, file_paths)
               /\ walk_stack' =
                      [i \in 1..Len(dirs) |-> Join(root, DirName[dirs[i]])]
                          \o Tail(walk_stack)
    /\ UNCHANGED <<args, pc, dir_idx, sorted_paths, idx, cur, files_by_hash,
                   unique_len, duplicate_len, report, printed, exit_code, err_path,
                   content>>

\* A plausible bug: the return statement sits inside the loop over directories,
\* so the scan returns after the first directory's walk.
ScanReturnEarly ==
    /\ pc = "scan"
    /\ walk_stack = <<>>
    /\ dir_idx >= 1
    /\ \E listed \in Perms(file_paths) : sorted_paths' = Sorted(listed)
    /\ printed' = printed \cup (IF verbose > 1 THEN {"paths"} ELSE {}) \cup {"total"}
    /\ pc' = "hash"
    /\ UNCHANGED <<args, dir_idx, walk_stack, file_paths, idx, cur, files_by_hash,
                   unique_len, duplicate_len, report, exit_code, err_path, content>>

\* get_subdirs_files returns; main sorts the paths (the set is listed in an
\* arbitrary order first) and prints their number.
ScanReturn ==
    /\ pc = "scan"
    /\ walk_stack = <<>>
    /\ dir_idx = Len(directories)
    /\ \E listed \in Perms(file_paths) : sorted_paths' = Sorted(listed)
    /\ printed' = printed \cup (IF verbose > 1 THEN {"paths"} ELSE {}) \cup {"total"}
    /\ pc' = "hash"
    /\ UNCHANGED <<args, dir_idx, walk_stack, file_paths, idx, cur, files_by_hash,
                   unique_len, duplicate_len, report, exit_code, err_path, content>>

\* The generator is asked for its next pair: get_file_hash opens and reads the
\* next path.
GetFileHash ==
    /\ pc = "hash"
    /\ idx < Len(sorted_paths)
    /\ LET file_path == sorted_paths[idx + 1]
       IN  \E data \in Contents :
               /\ content' = [p \in DOMAIN content \cup {file_path} |->
                                 IF p = file_path THEN data ELSE content[p]]
               /\ cur' = [hash |-> get_file_hash(data), path |-> file_path]
    /\ pc' = "group"
    /\ UNCHANGED <<args, dir_idx, walk_stack, file_paths, sorted_paths, idx,
                   files_by_hash, unique_len, duplicate_len, report, printed,
                   exit_code, err_path>>

\* A plausible bug: the OSError is caught around get_file_hash, the path is
\* noted and the loop goes on with the next file.
GetFileHashErrorSkip ==
    /\ pc = "hash"
    /\ idx < Len(sorted_paths)
    /\ err_path' = sorted_paths[idx + 1]
    /\ idx' = idx + 1
    /\ UNCHANGED <<args, pc, dir_idx, walk_stack, file_paths, sorted_paths, cur,
                   files_by_hash, unique_len, duplicate_len, report, printed,
                   exit_code, content>>

\* open() or read() raises OSError: nothing catches it, the traceback names the
\* path and the interpreter exits with status 1.
GetFileHashError ==
    /\ pc = "hash"
    /\ idx < Len(sorted_paths)
    /\ err_path' = sorted_paths[idx + 1]
    /\ exit_code' = 1
    /\ pc' = "error"
    /\ UNCHANGED <<args, dir_idx, walk_stack, file_paths, sorted_paths, idx, cur,
                   files_by_hash, unique_len, duplicate_len, report, printed, content>>

\* The body of the loop of group_files_by_hash for the pair just yielded.
GroupInsert ==
    /\ pc = "group"
    /\ files_by_hash' = Insert(files_by_hash, cur.hash, cur.path)
    /\ idx' = idx + 1
    /\ cur' = NoPair
    /\ pc' = "hash"
    /\ UNCHANGED <<args, dir_idx, walk_stack, file_paths, sorted_paths, unique_len,
                   duplicate_len, report, printed, exit_code, err_path, content>>

\* The generator is exhausted: group_files_by_hash returns, main prints the
\* counts, filters the table and prints the duplicates.
Report ==
    /\ pc = "hash"
    /\ idx = Len(sorted_paths)
    /\ unique_len' = Cardinality(DOMAIN files_by_hash)
    /\ duplicate_len' = Len(sorted_paths) - Cardinality(DOMAIN files_by_hash)
    /\ report' = FilterDuplicates(files_by_hash)
    /\ printed' = printed \cup (IF verbose > 1 THEN {"table"} ELSE {})
                          \cup {"unique", "duplicate", "report"}
    /\ exit_code' = 0
    /\ pc' = "done"
    /\ UNCHANGED <<args, dir_idx, walk_stack, file_paths, sorted_paths, idx, cur,
                   files_by_hash, err_path, content>>

Next ==
    \/ ParseCliArgs
    \/ ParseCliArgsError
    \/ NextDirectory
    \/ WalkStep
    \/ ScanReturn
    \/ GetFileHash
    \/ GetFileHashError
    \/ GroupInsert
    \/ Report

Spec == Init /\ [][Next]_vars

\* ------------------------------------------------- vocabulary of the claims

Range(s) == {s[i] : i \in 1..Len(s)}

\* The position of the last separator of a path, 0 when it has none.
LastSlash(p) ==
    IF \E i \in 1..Len(p) : p[i] = "/"
    THEN CHOOSE k \in 1..Len(p) : p[k] = "/" /\ \A j \in (k + 1)..Len(p) : p[j] # "/"
    ELSE 0

Basename(p) == SubSeq(p, LastSlash(p) + 1, Len(p))
Dirname(p) == SubSeq(p, 1, LastSlash(p) - 1)

\* The supplied directories that exist.
ExistingRoots ==
    {directories[i] : i \in {j \in 1..Len(directories) : Resolve(directories[j]) # NoDir}}

\* The directory paths a walk from `top` passes through, spelt as the walk
\* spells them.
RECURSIVE WalkRoots(_)
WalkRoots(top) ==
    {top} \cup UNION {WalkRoots(Join(top, DirName[c])) : c \in SubDirs(Resolve(top))}

\* A file of walked directory r that neither the hidden-file filter nor the
\* ignore list excludes.
PassesFilters(r, f) ==
    /\ include_hidden \/ f[1] # "."
    /\ \A frag \in IGNORE_LIST : ~Contains(frag, r)

\* What a scan of the tree has to return, stated without the walk: for every
\* existing root, the files of the root (of every directory under it when
\* recursive) that pass the filters.
ExpectedScan ==
    UNION {UNION {{Join(r, f) : f \in {g \in DirFiles[Resolve(r)] : PassesFilters(r, g)}} :
                  r \in {w \in WalkRoots(d) : recursive \/ w = d}} :
           d \in ExistingRoots}

AfterScan == pc \in {"hash", "group", "done", "error"}

\* The paths held by the grouping table, with their places.
Places(table) == {<<h, i>> : h \in DOMAIN table, i \in 1..Cardinality(file_paths)}
Entries(table) == {e \in Places(table) : e[2] <= Len(table[e[1]])}

RECURSIVE SumExtra(_, _)
SumExtra(table, keys) ==
    IF keys = {} THEN 0
    ELSE LET h == CHOOSE k \in keys : TRUE
         IN  (Len(table[h]) - 1) + SumExtra(table, keys \ {h})

Ascending(s) == \A i \in 1..(Len(s) - 1) : StrLess(s[i], s[i + 1])

PathX == <<"a", "/", "x">>
PathH == <<"a", "/", ".", "h">>
PathY == <<"a", "/", "s", "/", "y">>
PathC == <<"a", "/", "s", "/", ".", "g", "/", "c">>

\* ------------------------------------------------------------------- claims

\* C1: on every run that completes, the number of scanned files equals the
\* unique count plus the duplicate count, the unique count is the number of
\* keys of the grouping table, and the duplicate count is the sum over the
\* groups of (group size - 1).
C1_CountIdentity ==
    pc = "done" =>
        /\ Cardinality(file_paths) = unique_len + duplicate_len
        /\ unique_len = Cardinality(DOMAIN files_by_hash)
        /\ duplicate_len = SumExtra(files_by_hash, DOMAIN files_by_hash)

\* A completed run with two groups, one of them holding duplicates.
C1_Witness ==
    /\ pc = "done"
    /\ unique_len = 2
    /\ duplicate_len = 2
    /\ Cardinality(file_paths) = 4

\* C2: on every run that completes, the grouping table partitions the scanned
\* paths by content: every scanned path is at exactly one place of the table
\* and the table holds nothing else, two paths with the same bytes share a
\* group, and two paths with different bytes are in different groups.
C2_PartitionByContent ==
    pc = "done" =>
        /\ \A p \in file_paths :
               Cardinality({e \in Entries(files_by_hash) :
                               files_by_hash[e[1]][e[2]] = p}) = 1
        /\ \A e \in Entries(files_by_hash) : files_by_hash[e[1]][e[2]] \in file_paths
        /\ \A h \in DOMAIN files_by_hash : Len(files_by_hash[h]) >= 1
        /\ \A p, q \in file_paths :
               (content[p] = content[q]) <=>
                   (\E h \in DOMAIN files_by_hash :
                        {p, q} \subseteq Range(files_by_hash[h]))

\* A completed run with two files of the same bytes and a third that differs.
C2_Witness ==
    /\ pc = "done"
    /\ \E p, q, r \in file_paths :
           p # q /\ content[p] = content[q] /\ content[r] # content[p]

\* C3: the duplicate report is the grouping table restricted to the keys whose
\* list has two or more paths: every group of the report has at least two
\* members, no one-member group is in it, and every group of two or more is in
\* it with its list unchanged.
C3_FilterCorrect ==
    pc = "done" =>
        /\ DOMAIN report \subseteq DOMAIN files_by_hash
        /\ \A h \in DOMAIN report : Len(report[h]) >= 2
        /\ \A h \in DOMAIN files_by_hash :
               /\ Len(files_by_hash[h]) = 1 => h \notin DOMAIN report
               /\ Len(files_by_hash[h]) >= 2 =>
                      h \in DOMAIN report /\ report[h] = files_by_hash[h]

\* A completed run whose table has a one-member group and a larger one.
C3_Witness ==
    /\ pc = "done"
    /\ \E h, k \in DOMAIN files_by_hash :
           Len(files_by_hash[h]) = 1 /\ Len(files_by_hash[k]) >= 2

\* C4: for a given tree, roots and flags the grouping table of a completed run
\* is the same whatever order the walk lists directories and files in and
\* whatever order the path set is iterated in: its keys are the digests of the
\* files a scan has to return, and each key's list is those of the files with
\* that digest, in ascending order.
C4_Deterministic ==
    pc = "done" =>
        /\ DOMAIN files_by_hash = {md5(content[p]) : p \in ExpectedScan}
        /\ \A h \in DOMAIN files_by_hash :
               /\ Ascending(files_by_hash[h])
               /\ Range(files_by_hash[h]) = {p \in ExpectedScan : md5(content[p]) = h}

\* A completed run where two roots overlap and a group holds three paths, so
\* that the orders of the walk and of the set had something to permute.
C4_Witness ==
    /\ pc = "done"
    /\ Len(directories) = 2
    /\ directories[1] # directories[2]
    /\ \E h \in DOMAIN files_by_hash : Len(files_by_hash[h]) = 3

\* C5: without -r the scan returns the files directly inside the supplied
\* roots and no file of a nested directory that is not itself a root; with -r
\* it returns the files at every depth under each root. Both subject to the
\* hidden-file filter and the ignore list.
C5_RecursiveMode ==
    AfterScan =>
        /\ ~recursive =>
               /\ \A p \in file_paths :
                      Resolve(Dirname(p)) \in {Resolve(d) : d \in ExistingRoots}
               /\ \A d \in ExistingRoots : \A f \in DirFiles[Resolve(d)] :
                      PassesFilters(d, f) => Join(d, f) \in file_paths
        /\ recursive =>
               \A d \in ExistingRoots : \A r \in WalkRoots(d) :
                   \A f \in DirFiles[Resolve(r)] :
                       PassesFilters(r, f) => Join(r, f) \in file_paths

\* A non-recursive scan of a that returned a/x and left a/s/y out.
C5_Witness ==
    /\ AfterScan
    /\ ~recursive
    /\ PathX \in file_paths
    /\ PathY \notin file_paths

\* C6: without -i the scan returns no file whose base name starts with a dot;
\* with -i such a file is returned when no other filter excludes it; and under
\* every combination of the flags no returned file lies in a directory whose
\* path, as the walk spells it, contains an entry of the ignore list.
C6_HiddenAndIgnored ==
    /\ ~include_hidden => \A p \in file_paths : ~StartsWith(Basename(p), <<".">>)
    /\ \A p \in file_paths : \A frag \in IGNORE_LIST : ~Contains(frag, Dirname(p))
    /\ (AfterScan /\ include_hidden) =>
           \A d \in ExistingRoots : \A r \in WalkRoots(d) :
               \A f \in DirFiles[Resolve(r)] :
                   (/\ StartsWith(f, <<".">>)
                    /\ recursive \/ r = d
                    /\ \A frag \in IGNORE_LIST : ~Contains(frag, r))
                       => Join(r, f) \in file_paths

\* A recursive scan with -i that walked a/myvenv and returned the hidden a/.h.
C6_Witness ==
    /\ AfterScan
    /\ include_hidden
    /\ recursive
    /\ <<"a">> \in Range(directories)
    /\ PathH \in file_paths

\* C7: without -i the scan returns no file whose base name starts with a dot
\* and no file inside, at any depth, a directory whose name starts with a dot.
C7_HiddenDirsExcluded ==
    ~include_hidden =>
        \A p \in file_paths : \A seg \in Range(Split(p)) : ~StartsWith(seg, <<".">>)

InvalidInput ==
    Len(directories) = 0 \/ \E i \in 1..Len(directories) : Resolve(directories[i]) = NoDir

\* C8: when no directory is supplied or a supplied root does not exist, the
\* run fails before any scanning: no directory is walked, no file is digested,
\* no count and no report is printed, and the exit status is not 0.
C8_InvalidInputRejected ==
    InvalidInput =>
        /\ walk_stack = <<>>
        /\ file_paths = {}
        /\ DOMAIN content = {}
        /\ printed \cap {"total", "unique", "duplicate", "report"} = {}
        /\ exit_code # 0

ScanFinished ==
    /\ pc \notin {"start", "scan", "usage"}
    /\ walk_stack = <<>>
    /\ dir_idx = Len(directories)
    /\ Range(sorted_paths) = file_paths

\* The number of digests computed so far.
Digested == idx + (IF cur = NoPair THEN 0 ELSE 1)

====
